---- MODULE Spec2Model ----
(* Route manager of vgs-satellite (satellite/routes/manager.py): the CRUD     *)
(* operations on routes and their rule entries, run against one SQLAlchemy    *)
(* session.  `db` is the committed content of the store, `sess` is what the   *)
(* session sees: the committed content plus whatever earlier operations have  *)
(* staged and not yet committed or rolled back.                               *)
EXTENDS Integers, Sequences, FiniteSets, TLC

VARIABLES db, sess, last

vars == <<db, sess, last>>

(* ------------------------------ bounds ---------------------------------- *)
MaxRouteId == 2
MaxEntryId == 3
MaxLen == 2
MaxOps == 3

(* ------------------------------ values ---------------------------------- *)
\* Python None as an id: a payload without 'id', an object not yet flushed.
NoId == 0
\* a key that the payload dict does not contain
Absent == "absent"
\* a column holding NULL
None == "none"

RouteIds == 1..MaxRouteId
EntryIds == 1..MaxEntryId

\* A rule entry object: RuleEntry(id, expression_snapshot, operations).
RuleEntry(id, expr, ops) == [id |-> id, expr |-> expr, ops |-> ops]

\* A route object: Route(id, host_endpoint, outbound flag, rule_entries_list).
Route(id, host, outbound, rules) ==
    [id |-> id, host |-> host, outbound |-> outbound, rules |-> rules]

\* A store content: the routes by id, each with its rule entries; whether
\* objects pending in the session break the uniqueness of a primary key (so
\* that any flush fails); and the ids of the rule entries that no route owns.
Store(routes, conflict) ==
    [routes |-> routes, conflict |-> conflict, orphans |-> {}]

EmptyStore == Store(<<>>, FALSE)

(* --------------------------- sequence helpers --------------------------- *)
Range(s) == {s[i] : i \in 1..Len(s)}

Ids(rules) == {rules[i].id : i \in 1..Len(rules)}

SeqsUpTo(S, n) == UNION {[1..k -> S] : k \in 0..n}

\* mutant: the reloaded collection is the list that update assigned
Dedupe_AsAssigned(rules) == rules

RECURSIVE Dedupe(_)
\* a collection reloaded from the store holds each row once, at the place of
\* its first occurrence
Dedupe(rules) ==
    IF rules = <<>> THEN <<>>
    ELSE LET init == Dedupe(SubSeq(rules, 1, Len(rules) - 1))
             x == rules[Len(rules)]
         IN IF x.id \in Ids(init) THEN init ELSE Append(init, x)

Min(S) == CHOOSE x \in S : \A y \in S : x <= y

(* ------------------------------ validation ------------------------------ *)
IsInvalidRouteConfiguration(res) ==
    res \in {"Invalid expression", "Invalid operations", "Invalid host pattern"}

\* route.is_outbound(), the method get_all_by_type calls.
is_outbound(route) == route.outbound

\* `route.is_outbound` as check_route reads it: the attribute, not a call.
\* get_all_by_type calls is_outbound, so the attribute is a bound method and
\* is truthy for every route.
is_outbound_attr(route) == TRUE

\* mutant: the operations are built before the expression
check_filter_OperationsFirst(fltr) ==
    IF fltr.ops # None /\ fltr.ops = "bad" THEN "Invalid operations"
    ELSE IF fltr.expr # None /\ fltr.expr = "bad" THEN "Invalid expression"
    ELSE "ok"

check_filter(fltr) ==
    IF fltr.expr # None /\ fltr.expr = "bad" THEN "Invalid expression"
    ELSE IF fltr.ops # None /\ fltr.ops = "bad" THEN "Invalid operations"
    ELSE "ok"

RECURSIVE check_rules(_)
check_rules(rules) ==
    IF rules = <<>> THEN "ok"
    ELSE LET r == check_filter(Head(rules))
         IN IF r # "ok" THEN r ELSE check_rules(Tail(rules))

\* "ok", or the error check_route raises: re.compile raises re.error on an
\* unparsable pattern (turned into InvalidRouteConfiguration) and TypeError on
\* None (not caught).
check_route(route) ==
    IF is_outbound_attr(route) /\ route.host = "bad" THEN "Invalid host pattern"
    ELSE IF is_outbound_attr(route) /\ route.host = None THEN "TypeError"
    ELSE check_rules(route.rules)

\* The builders that the validation invokes, in the order in which it
\* invokes them: <<"host", 0>> for re.compile, <<"expression", i>> and
\* <<"operations", i>> for CompositeExpression.build and build_pipeline on the
\* i-th rule entry.  An exception ends the validation.
checked_filter(fltr, i) ==
    LET e == IF fltr.expr # None THEN <<<<"expression", i>>>> ELSE <<>>
        o == IF fltr.ops # None THEN <<<<"operations", i>>>> ELSE <<>>
    IN IF fltr.expr # None /\ fltr.expr = "bad" THEN e ELSE e \o o

RECURSIVE checked_rules(_, _)
checked_rules(rules, i) ==
    IF rules = <<>> THEN <<>>
    ELSE LET c == checked_filter(Head(rules), i)
         IN IF check_filter(Head(rules)) # "ok" THEN c
            ELSE c \o checked_rules(Tail(rules), i + 1)

checked_route(route) ==
    LET h == IF is_outbound_attr(route) THEN <<<<"host", 0>>>> ELSE <<>>
    IN IF is_outbound_attr(route) /\ route.host \in {"bad", None} THEN h
       ELSE h \o checked_rules(route.rules, 1)

(* ------------------------------ the session ----------------------------- *)
\* ids of the rule entries a store content holds (pending ones have none yet)
EntryIdsOf(s) ==
    (UNION {Ids(s.routes[r].rules) : r \in DOMAIN s.routes} \ {NoId})
        \cup s.orphans

RECURSIVE PendingIn(_)
PendingIn(rules) ==
    IF rules = <<>> THEN 0
    ELSE (IF Head(rules).id = NoId THEN 1 ELSE 0) + PendingIn(Tail(rules))

RECURSIVE PendingCount(_, _)
PendingCount(routes, todo) ==
    IF todo = {} THEN 0
    ELSE LET r == Min(todo)
         IN PendingIn(routes[r].rules) + PendingCount(routes, todo \ {r})

\* the ids a new id has to differ from: those of the rule entries that the
\* store and the session hold, and those that `s` is to hold
TakenIds(s) == EntryIdsOf(s) \cup EntryIdsOf(sess) \cup EntryIdsOf(db)

\* the id space of the model has an unused id for every pending rule entry
HasRoom(s) ==
    PendingCount(s.routes, DOMAIN s.routes)
        <= Cardinality(EntryIds \ TakenIds(s))

RECURSIVE AssignIds(_, _)
\* the column default gives a pending rule entry its id when it is flushed:
\* an id that no row of the store has
AssignIds(rules, avoid) ==
    IF rules = <<>> THEN <<>>
    ELSE LET h == Head(rules)
             id == IF h.id = NoId THEN Min(EntryIds \ avoid) ELSE h.id
         IN <<[h EXCEPT !.id = id]>> \o AssignIds(Tail(rules), avoid \cup {id})

RECURSIVE FlushRoutes(_, _, _)
FlushRoutes(routes, todo, avoid) ==
    IF todo = {} THEN routes
    ELSE LET r == Min(todo)
             new == AssignIds(routes[r].rules, avoid)
         IN FlushRoutes([routes EXCEPT ![r].rules = new], todo \ {r},
                        avoid \cup Ids(new))

\* session.flush(): the pending objects are written inside the transaction
Flush(s) ==
    [s EXCEPT !.routes = FlushRoutes(s.routes, DOMAIN s.routes, TakenIds(s))]

\* what a successful session.commit() leaves in the store and, the objects
\* being expired, in the session
Committed(s) ==
    LET f == Flush(s)
    IN [f EXCEPT !.routes =
                     [r \in DOMAIN f.routes |->
                         [f.routes[r] EXCEPT
                             !.rules = Dedupe(f.routes[r].rules)]],
                 !.conflict = FALSE]

\* two objects of the list carry the same id given by the caller
ExplicitDup(rules) ==
    \E i, j \in 1..Len(rules) :
        i < j /\ rules[i].id # NoId /\ rules[i].id = rules[j].id

\* session.add(route): the route and, by cascade, its rule entries are pending
AddRoute(s, route) ==
    IF route.id \in DOMAIN s.routes THEN [s EXCEPT !.conflict = TRUE]
    ELSE [s EXCEPT
             !.routes = [r \in DOMAIN s.routes \cup {route.id} |->
                            IF r = route.id THEN route ELSE s.routes[r]],
             !.conflict =
                 \/ s.conflict
                 \/ ExplicitDup(route.rules)
                 \/ (Ids(route.rules) \ {NoId}) \cap EntryIdsOf(s) # {}]

\* session.delete(route): the route goes, and its rule entries with it
RemoveRoute(s, rid) ==
    [s EXCEPT !.routes = [r \in DOMAIN s.routes \ {rid} |-> s.routes[r]]]

(* ------------------------------ payloads -------------------------------- *)
\* a rule entry record of a payload: every key may be missing
RuleData == [id : {NoId} \cup EntryIds,
             expr : {Absent, "ok", "bad"},
             ops : {Absent, "ok", "bad"}]

\* a route payload; `key` says whether it contains 'rule_entries_list'
RouteData == [id : {NoId} \cup RouteIds,
              host : {Absent, "ok", "bad"},
              outbound : {Absent, "yes", "no"},
              key : BOOLEAN,
              recs : SeqsUpTo(RuleData, MaxLen)]

Payloads == {d \in RouteData : ~d.key => d.recs = <<>>}

\* mutant: the entry is constructed without the id the record supplies
NewEntry_NoId(rec) ==
    RuleEntry(NoId,
              IF rec.expr = Absent THEN None ELSE rec.expr,
              IF rec.ops = Absent THEN None ELSE rec.ops)

\* RuleEntry(**rule_entry): a column the record does not name is NULL
NewEntry(rec) ==
    RuleEntry(rec.id,
              IF rec.expr = Absent THEN None ELSE rec.expr,
              IF rec.ops = Absent THEN None ELSE rec.ops)

\* Route(**route_data) with the rule entries constructed from their records
NewRoute(data) ==
    Route(data.id,
          IF data.host = Absent THEN None ELSE data.host,
          data.outbound = "yes",
          [i \in 1..Len(data.recs) |-> NewEntry(data.recs[i])])

\* the id the store gives a route constructed without one
FreshRouteId(taken) == Min(RouteIds \ taken)

(* --------------------------- operation results -------------------------- *)
\* What the last operation was, what it was given and what it did: its
\* outcome `res` ("ok" or the error raised), the id of the route it returned
\* (`out`) or the ids of the routes it returned (`outs`), whether it found its
\* route (`found`), the rule entries that route had then (`prior`), the ids
\* of the rule entries the session held then (`before`), the ids handed to
\* session.delete (`deleted`), the session calls it made (`calls`) and the
\* builders its validation invoked (`checks`).
NoData == [id |-> NoId, host |-> Absent, outbound |-> Absent, key |-> FALSE,
           recs |-> <<>>]

NoResult ==
    [n |-> 0, op |-> "init", res |-> "ok", rid |-> NoId, data |-> NoData,
     datas |-> <<>>, out |-> NoId, outs |-> {}, found |-> FALSE,
     prior |-> <<>>, before |-> {}, deleted |-> {}, calls |-> <<>>,
     checks |-> <<>>]

Result(op, res, calls) ==
    [NoResult EXCEPT !.n = last.n + 1, !.op = op, !.res = res,
                     !.calls = calls,
                     !.before = EntryIdsOf(sess)]

Init ==
    /\ db = EmptyStore
    /\ sess = EmptyStore
    /\ last = NoResult

(* -------------------------------- reads --------------------------------- *)
\* get_all(): commits, then reads every route
GetAll(fail) ==
    /\ last.n < MaxOps
    /\ fail => ~sess.conflict
    /\ IF sess.conflict \/ fail
       THEN /\ last' = Result("get_all", "StorageError", <<"commit!">>)
            /\ UNCHANGED <<db, sess>>
       ELSE /\ db' = Committed(sess)
            /\ sess' = Committed(sess)
            /\ last' = [Result("get_all", "ok", <<"commit", "query">>)
                           EXCEPT !.outs = DOMAIN sess.routes]

\* get_all_by_type(is_outbound)
GetAllByType(flag, fail) ==
    /\ last.n < MaxOps
    /\ fail => ~sess.conflict
    /\ IF sess.conflict \/ fail
       THEN /\ last' = Result("get_all_by_type", "StorageError",
                              <<"commit!">>)
            /\ UNCHANGED <<db, sess>>
       ELSE /\ db' = Committed(sess)
            /\ sess' = Committed(sess)
            /\ last' = [Result("get_all_by_type", "ok",
                               <<"commit", "query">>)
                           EXCEPT !.outs = {r \in DOMAIN sess.routes :
                                               is_outbound(sess.routes[r])
                                                   = flag}]

\* get(route_id): the route, or None when the query finds no row
Get(rid) ==
    /\ last.n < MaxOps
    /\ IF sess.conflict
       THEN last' = [Result("get", "StorageError", <<"query!">>)
                        EXCEPT !.rid = rid]
       ELSE last' = [Result("get", "ok", <<"query">>)
                        EXCEPT !.rid = rid,
                               !.found = rid \in DOMAIN sess.routes,
                               !.out = IF rid \in DOMAIN sess.routes
                                       THEN rid ELSE NoId]
    /\ UNCHANGED <<db, sess>>

(* -------------------------------- create -------------------------------- *)
\* the try block of create: add, commit, and on any exception roll back
StoreRoute(route, fail) ==
    LET rid == IF route.id = NoId
               THEN FreshRouteId(DOMAIN sess.routes \cup DOMAIN db.routes)
               ELSE route.id
        s1 == AddRoute(sess, [route EXCEPT !.id = rid])
    IN IF s1.conflict \/ fail
       THEN [db |-> db, sess |-> db, res |-> "StorageError", out |-> NoId,
             calls |-> <<"add", "commit!", "rollback">>]
       ELSE [db |-> Committed(s1), sess |-> Committed(s1), res |-> "ok",
             out |-> rid, calls |-> <<"add", "commit">>]

\* create(route_data, store=True), as one outcome
CreateOutcome(data, fail, pre) ==
    LET route == NewRoute(data)
        v == check_route(route)
    IN IF v # "ok"
       THEN [db |-> db, sess |-> sess, res |-> v, out |-> NoId, calls |-> pre]
       ELSE LET o == StoreRoute(route, fail)
            IN [o EXCEPT !.calls = pre \o o.calls]

\* create can run: the id spaces of the model have room for what it adds
CreateRoom(data) ==
    /\ data.id = NoId =>
           RouteIds \ (DOMAIN sess.routes \cup DOMAIN db.routes) # {}
    /\ PendingIn(NewRoute(data).rules)
           <= Cardinality(EntryIds \ (EntryIdsOf(sess) \cup EntryIdsOf(db)
                                      \cup Ids(NewRoute(data).rules)))

Create(data, fail) ==
    /\ last.n < MaxOps
    /\ fail => check_route(NewRoute(data)) = "ok"
    /\ CreateRoom(data)
    /\ LET o == CreateOutcome(data, fail, <<>>)
       IN /\ db' = o.db
          /\ sess' = o.sess
          /\ last' = [Result("create", o.res, o.calls)
                          EXCEPT !.rid = data.id, !.data = data,
                                 !.out = o.out,
                                 !.checks = checked_route(NewRoute(data))]

(* -------------------------------- update -------------------------------- *)
\* update_model(model, data, exclude) on a rule entry: the columns the record
\* names are set, 'id' being excluded
update_filter(filter, rec) ==
    [filter EXCEPT !.expr = IF rec.expr = Absent THEN @ ELSE rec.expr,
                   !.ops = IF rec.ops = Absent THEN @ ELSE rec.ops]

\* update_model(route, route_data): the columns the payload names are set,
\* nothing being excluded
update_route(route, data) ==
    [route EXCEPT !.id = IF data.id = NoId THEN @ ELSE data.id,
                  !.host = IF data.host = Absent THEN @ ELSE data.host,
                  !.outbound = IF data.outbound = Absent THEN @
                               ELSE data.outbound = "yes"]

\* current_filters.get(filter_id), for a record that names an id
Matches(current, rec) == rec.id # NoId /\ rec.id \in Ids(current)

CurrentFilter(current, id) ==
    current[CHOOSE i \in 1..Len(current) :
                /\ current[i].id = id
                /\ \A j \in i + 1..Len(current) : current[j].id # id]

RECURSIVE MergedFilter(_, _)
\* the entry object after the loop: every record that names its id has been
\* merged into it, in the order of the list
MergedFilter(filter, recs) ==
    IF recs = <<>> THEN filter
    ELSE MergedFilter(IF Head(recs).id = filter.id
                      THEN update_filter(filter, Head(recs)) ELSE filter,
                      Tail(recs))

\* mutant: the matched entries keep the order of the current collection and
\* the new entries follow them
TargetFilters_CurrentOrder(current, recs) ==
    LET kept == SelectSeq(current,
                          LAMBDA f : \E i \in 1..Len(recs) :
                                         recs[i].id = f.id)
        new == SelectSeq(recs, LAMBDA r : ~Matches(current, r))
    IN [i \in 1..Len(kept) |-> MergedFilter(kept[i], recs)]
           \o [i \in 1..Len(new) |-> NewEntry(new[i])]

\* target_filters: one object per record, in the order of the records
TargetFilters(current, recs) ==
    [i \in 1..Len(recs) |->
        IF Matches(current, recs[i])
        THEN MergedFilter(CurrentFilter(current, recs[i].id), recs)
        ELSE NewEntry(recs[i])]

\* target_filters_ids: the ids of the target objects as the loop reads them
\* (None for an entry constructed without an id)
TargetFiltersIds(current, recs) == Ids(TargetFilters(current, recs))

\* mutant: the test of the deletion loop is inverted
DeletedFilters_Inverted(current, recs) ==
    {id \in Ids(current) : id \in TargetFiltersIds(current, recs)}

\* mutant: the entries that the target list lacks are not deleted
DeletedFilters_None(current, recs) == {}

\* the entries handed to session.delete
DeletedFilters(current, recs) ==
    {id \in Ids(current) : id \notin TargetFiltersIds(current, recs)}

\* the new objects among the targets break the uniqueness of the entry ids
NewFilterConflict(s, current, recs) ==
    \E i \in 1..Len(recs) :
        /\ ~Matches(current, recs[i])
        /\ recs[i].id # NoId
        /\ \/ recs[i].id \in EntryIdsOf(s)
           \/ \E j \in 1..Len(recs) : j # i /\ recs[j].id = recs[i].id

\* mutant: the reconciliation runs whether or not the payload has the key
Reconciled_Always(current, data) == TargetFilters(current, data.recs)

\* mutant: an empty list is taken for a payload without the key
Reconciled_SkipEmpty(current, data) ==
    IF data.key /\ data.recs # <<>>
    THEN TargetFilters(current, data.recs) ELSE current

\* the rule entries of the route after the reconciliation
Reconciled(current, data) ==
    IF data.key THEN TargetFilters(current, data.recs) ELSE current

\* The session after update has changed the route and before check_route.
\* A rule entry that the assignment of line 95 takes out of the collection
\* leaves the table when the loop of lines 91-93 has handed it to
\* session.delete, and stays there without owner when not.
Staged(s, rid, data) ==
    LET old == s.routes[rid]
        new == [update_route(old, data) EXCEPT
                    !.rules = Reconciled(old.rules, data)]
        clash == new.id # rid /\ new.id \in DOMAIN s.routes
        key == IF clash THEN rid ELSE new.id
        dels == IF data.key THEN DeletedFilters(old.rules, data.recs) ELSE {}
        dropped == (Ids(old.rules) \ Ids(new.rules)) \ {NoId}
    IN [routes |-> [r \in (DOMAIN s.routes \ {rid}) \cup {key} |->
                       IF r = key THEN new ELSE s.routes[r]],
        conflict |-> \/ s.conflict
                     \/ clash
                     \/ data.key /\ NewFilterConflict(s, old.rules,
                                                       data.recs),
        orphans |-> s.orphans \cup (dropped \ dels)]

\* update(route_id, route_data) on a route the session finds
UpdateOutcome(rid, data, fail) ==
    LET old == sess.routes[rid]
        s1 == Staged(sess, rid, data)
        new == [update_route(old, data) EXCEPT
                    !.rules = Reconciled(old.rules, data)]
        v == check_route(new)
        dels == IF data.key THEN DeletedFilters(old.rules, data.recs) ELSE {}
        pre == <<"query">> \o (IF dels = {} THEN <<>> ELSE <<"delete">>)
    IN IF v # "ok"
       THEN [db |-> db, sess |-> Flush(s1), res |-> v, out |-> NoId,
             deleted |-> dels, calls |-> pre, checks |-> checked_route(new)]
       ELSE IF s1.conflict \/ fail
       THEN [db |-> db, sess |-> db, res |-> "StorageError", out |-> NoId,
             deleted |-> dels, calls |-> pre \o <<"commit!", "rollback">>,
             checks |-> checked_route(new)]
       ELSE [db |-> Committed(s1), sess |-> Committed(s1), res |-> "ok",
             out |-> new.id, deleted |-> dels, calls |-> pre \o <<"commit">>,
             checks |-> checked_route(new)]

\* mutant: the payload is handed to create with the id it carries
UpsertData_PayloadId(rid, data) ==
    IF data.id = NoId THEN [data EXCEPT !.id = rid] ELSE data

\* {**route_data, 'id': route_id}: the payload update hands to create when it
\* finds no route
UpsertData(rid, data) == [data EXCEPT !.id = rid]

UpdateRoom(rid, data) ==
    IF rid \in DOMAIN sess.routes
    THEN HasRoom(Staged(sess, rid, data))
    ELSE CreateRoom(UpsertData(rid, data))

\* the operation gets as far as its session.commit()
UpdateCommits(rid, data) ==
    /\ ~sess.conflict
    /\ IF rid \in DOMAIN sess.routes
       THEN check_route([update_route(sess.routes[rid], data) EXCEPT
                            !.rules = Reconciled(sess.routes[rid].rules,
                                                 data)]) = "ok"
       ELSE check_route(NewRoute(UpsertData(rid, data))) = "ok"

Update(rid, data, fail) ==
    /\ last.n < MaxOps
    /\ fail => UpdateCommits(rid, data)
    /\ IF sess.conflict
       THEN /\ last' = [Result("update", "StorageError", <<"query!">>)
                           EXCEPT !.rid = rid, !.data = data]
            /\ UNCHANGED <<db, sess>>
       ELSE /\ UpdateRoom(rid, data)
            /\ IF rid \notin DOMAIN sess.routes
               THEN LET o == CreateOutcome(UpsertData(rid, data), fail,
                                           <<"query">>)
                    IN /\ db' = o.db
                       /\ sess' = o.sess
                       /\ last' = [Result("update", o.res, o.calls)
                                       EXCEPT !.rid = rid, !.data = data,
                                              !.out = o.out,
                                              !.checks = checked_route(
                                                  NewRoute(UpsertData(rid,
                                                                      data)))]
               ELSE LET o == UpdateOutcome(rid, data, fail)
                    IN /\ db' = o.db
                       /\ sess' = o.sess
                       /\ last' = [Result("update", o.res, o.calls)
                                       EXCEPT !.rid = rid, !.data = data,
                                              !.out = o.out, !.found = TRUE,
                                              !.prior =
                                                  sess.routes[rid].rules,
                                              !.deleted = o.deleted,
                                              !.checks = o.checks]

(* -------------------------------- delete -------------------------------- *)
\* mutant: a delete that finds no route returns without raising
DeleteOutcome_Silent(rid, fail) ==
    IF rid \notin DOMAIN sess.routes
    THEN [db |-> db, sess |-> sess, res |-> "ok", calls |-> <<"query">>]
    ELSE IF fail
    THEN [db |-> db, sess |-> RemoveRoute(sess, rid), res |-> "StorageError",
          calls |-> <<"query", "delete", "commit!">>]
    ELSE [db |-> Committed(RemoveRoute(sess, rid)),
          sess |-> Committed(RemoveRoute(sess, rid)), res |-> "ok",
          calls |-> <<"query", "delete", "commit">>]

\* delete(route_id) in a session that can query: EntityNotFound when get
\* finds no route; else the route is deleted and the session committed, a
\* failure of the commit propagating as it is
DeleteOutcome(rid, fail) ==
    IF rid \notin DOMAIN sess.routes
    THEN [db |-> db, sess |-> sess, res |-> "EntityNotFound",
          calls |-> <<"query">>]
    ELSE IF fail
    THEN [db |-> db, sess |-> RemoveRoute(sess, rid), res |-> "StorageError",
          calls |-> <<"query", "delete", "commit!">>]
    ELSE [db |-> Committed(RemoveRoute(sess, rid)),
          sess |-> Committed(RemoveRoute(sess, rid)), res |-> "ok",
          calls |-> <<"query", "delete", "commit">>]

Delete(rid, fail) ==
    /\ last.n < MaxOps
    /\ fail => ~sess.conflict /\ rid \in DOMAIN sess.routes
    /\ IF sess.conflict
       THEN /\ last' = [Result("delete", "StorageError", <<"query!">>)
                           EXCEPT !.rid = rid]
            /\ UNCHANGED <<db, sess>>
       ELSE LET o == DeleteOutcome(rid, fail)
                found == rid \in DOMAIN sess.routes
            IN /\ db' = o.db
               /\ sess' = o.sess
               /\ last' = [Result("delete", o.res, o.calls)
                              EXCEPT !.rid = rid, !.found = found,
                                     !.prior = IF found
                                               THEN sess.routes[rid].rules
                                               ELSE <<>>]

(* ------------------------------- replace -------------------------------- *)
\* mutant: only the first route of the list is validated before the swap
CheckAll_FirstOnly(datas) ==
    IF datas = <<>> THEN "ok" ELSE check_route(NewRoute(Head(datas)))

\* the first error create(route_data, False) raises over the list, or "ok"
RECURSIVE CheckAll(_)
CheckAll(datas) ==
    IF datas = <<>> THEN "ok"
    ELSE LET v == check_route(NewRoute(Head(datas)))
         IN IF v # "ok" THEN v ELSE CheckAll(Tail(datas))

ExplicitRouteIds(datas) == {datas[i].id : i \in 1..Len(datas)} \ {NoId}

RECURSIVE AddAll(_, _, _)
\* session.add_all(routes), a route constructed without an id getting one
\* from the store
AddAll(s, routes, taken) ==
    IF routes = <<>> THEN s
    ELSE LET h == Head(routes)
             rid == IF h.id = NoId THEN FreshRouteId(taken) ELSE h.id
         IN AddAll(AddRoute(s, [h EXCEPT !.id = rid]), Tail(routes),
                   taken \cup {rid})

NewRoutes(datas) == [i \in 1..Len(datas) |-> NewRoute(datas[i])]

\* session.query(Route).delete(): every route row goes, and with a route its
\* rule entries
BulkDelete(s) == [s EXCEPT !.routes = <<>>]

\* mutant: the delete and the inserts run without a savepoint, so a failure
\* leaves what was done before it
ReplaceNested_NoSavepoint(s, datas, failAt) ==
    LET taken == DOMAIN s.routes \cup DOMAIN db.routes
                     \cup ExplicitRouteIds(datas)
        full == AddAll(BulkDelete(s), NewRoutes(datas), taken)
        part == AddAll(BulkDelete(s),
                       SubSeq(NewRoutes(datas), 1, failAt - 2), taken)
    IN IF failAt = 1 THEN [sess |-> s, res |-> "StorageError",
                           calls |-> <<"delete_all!">>]
       ELSE IF failAt # 0
       THEN [sess |-> IF part.conflict THEN BulkDelete(s) ELSE Flush(part),
             res |-> "StorageError", calls |-> <<"delete_all", "add_all!">>]
       ELSE IF full.conflict
       THEN [sess |-> BulkDelete(s), res |-> "StorageError",
             calls |-> <<"delete_all", "add_all", "flush!">>]
       ELSE [sess |-> Flush(full), res |-> "ok",
             calls |-> <<"delete_all", "add_all", "flush">>]

\* The block `with session.begin_nested()`: failAt = 0 when no statement
\* fails, 1 when the delete fails, k + 1 when the insert of the k-th route
\* fails.  A failure, of a statement or of the flush at the end of the block,
\* rolls the session back to the savepoint.
ReplaceNested(s, datas, failAt) ==
    LET taken == DOMAIN s.routes \cup DOMAIN db.routes
                     \cup ExplicitRouteIds(datas)
        full == AddAll(BulkDelete(s), NewRoutes(datas), taken)
    IN IF failAt # 0 \/ full.conflict
       THEN [sess |-> s, res |-> "StorageError",
             calls |-> IF failAt = 1
                       THEN <<"begin_nested", "delete_all!",
                              "rollback_nested">>
                       ELSE IF failAt # 0
                       THEN <<"begin_nested", "delete_all", "add_all!",
                              "rollback_nested">>
                       ELSE <<"begin_nested", "delete_all", "add_all",
                              "flush!", "rollback_nested">>]
       ELSE [sess |-> Flush(full), res |-> "ok",
             calls |-> <<"begin_nested", "delete_all", "add_all", "flush",
                         "release">>]

ReplaceRoom(datas) ==
    LET taken == DOMAIN sess.routes \cup DOMAIN db.routes
                     \cup ExplicitRouteIds(datas)
        fresh == Cardinality({i \in 1..Len(datas) : datas[i].id = NoId})
    IN /\ fresh <= Cardinality(RouteIds \ taken)
       /\ HasRoom(AddAll(BulkDelete(sess), NewRoutes(datas), taken))

Replace(datas, failAt) ==
    /\ last.n < MaxOps
    /\ failAt <= Len(datas) + 1
    /\ failAt # 0 => CheckAll(datas) = "ok" /\ ~sess.conflict
    /\ LET v == CheckAll(datas)
       IN IF v # "ok"
          THEN /\ last' = [Result("replace", v, <<>>)
                              EXCEPT !.datas = datas]
               /\ UNCHANGED <<db, sess>>
          ELSE IF sess.conflict
          THEN /\ last' = [Result("replace", "StorageError",
                                  <<"begin_nested!">>)
                              EXCEPT !.datas = datas]
               /\ UNCHANGED <<db, sess>>
          ELSE /\ ReplaceRoom(datas)
               /\ LET o == ReplaceNested(sess, datas, failAt)
                  IN /\ sess' = o.sess
                     /\ db' = db
                     /\ last' = [Result("replace", o.res, o.calls)
                                     EXCEPT !.datas = datas,
                                            !.outs = IF o.res = "ok"
                                                     THEN DOMAIN o.sess.routes
                                                     ELSE {}]

(* ----------------------------- specification ---------------------------- *)
\* Spec: the session from an empty store, MaxOps operations with payloads of
\* at most one rule entry.
SmallRules ==
    {d \in RuleData : d.id \in {NoId, 1} /\ d.ops = Absent /\ d.expr # "ok"}

SmallCreates ==
    {d \in Payloads :
        /\ d.host # Absent /\ d.outbound # "no" /\ d.id \in {NoId, 1}
        /\ d.recs \in SeqsUpTo(SmallRules, 1)
        /\ d.key => d.recs # <<>> /\ d.id = NoId /\ d.outbound = Absent}

SmallUpdates ==
    {d \in Payloads :
        /\ d.outbound = Absent /\ d.id \in {NoId, MaxRouteId}
        /\ d.recs \in SeqsUpTo(SmallRules, 1)
        /\ d.key => d.id = NoId /\ d.host # "ok"}

SmallReplaces ==
    {d \in Payloads :
        /\ d.key /\ d.host # Absent /\ d.outbound = Absent
        /\ d.id \in {NoId, 1}
        /\ d.recs = IF d.id = NoId THEN <<[id |-> NoId, expr |-> Absent,
                                           ops |-> Absent]>>
                    ELSE <<>>}

Next ==
    \/ \E fail \in BOOLEAN : GetAll(fail)
    \/ \E flag \in BOOLEAN, fail \in BOOLEAN : GetAllByType(flag, fail)
    \/ \E rid \in RouteIds : Get(rid)
    \/ \E data \in SmallCreates, fail \in BOOLEAN : Create(data, fail)
    \/ \E rid \in RouteIds, data \in SmallUpdates, fail \in BOOLEAN :
           Update(rid, data, fail)
    \/ \E rid \in RouteIds, fail \in BOOLEAN : Delete(rid, fail)
    \/ \E datas \in SeqsUpTo(SmallReplaces, 2), failAt \in 0..3 :
           Replace(datas, failAt)

Spec == Init /\ [][Next]_vars

\* SpecUpdate, SpecReplace: one update, one replace, on a committed store of
\* valid routes, with the payloads of the bounds.
ValidEntries(ids) ==
    {rules \in [1..Cardinality(ids) -> [id : ids, expr : {None, "ok"},
                                        ops : {None}]] :
        \A i \in 1..Len(rules) : rules[i].id = i}

\* committed stores that creates leave: the empty one, and route 1 with the
\* rule entries 1..k and, or not, route MaxRouteId with the rule entry
\* MaxEntryId
InitStores ==
    {Store(routes, FALSE) :
        routes \in {<<>>} \cup UNION {
            {(1 :> Route(1, "ok", FALSE, rules)),
             (1 :> Route(1, "ok", FALSE, rules)) @@
             (MaxRouteId :> Route(MaxRouteId, "ok", TRUE,
                                  <<RuleEntry(MaxEntryId, None, "ok")>>))}
            : rules \in UNION {ValidEntries(1..k) : k \in 0..MaxLen}}}

InitCommitted ==
    /\ db \in InitStores
    /\ sess = db
    /\ last = NoResult

RuleInputs ==
    {d \in RuleData : <<d.expr, d.ops>> \in {<<"ok", Absent>>,
                                               <<"bad", Absent>>,
                                               <<Absent, "ok">>}}

UpdateInputs ==
    {d \in [id : {NoId} \cup RouteIds, host : {Absent, "ok", "bad"},
            outbound : {Absent}, key : BOOLEAN,
            recs : SeqsUpTo(RuleInputs, MaxLen)] :
        /\ ~d.key => d.recs = <<>>
        /\ d.key => d.id = NoId /\ d.host # "ok"
        /\ d.host = "bad" => Len(d.recs) <= 1}

\* An update that finds no route is a create, whose payloads SpecCreate
\* draws: here it is given one rule entry at most, and so is the update
\* whose commit fails.
NextUpdate ==
    /\ last.op = "init"
    /\ \E rid \in RouteIds, data \in UpdateInputs, fail \in BOOLEAN :
           /\ (rid \notin DOMAIN sess.routes \/ fail) => Len(data.recs) <= 1
           /\ Update(rid, data, fail)

SpecUpdate == InitCommitted /\ [][NextUpdate]_vars

ReplaceInputs ==
    {d \in [id : {NoId} \cup RouteIds, host : {"ok", "bad"},
            outbound : {Absent}, key : {TRUE},
            recs : SeqsUpTo(RuleInputs, 1)] :
        /\ \A i \in 1..Len(d.recs) : d.recs[i].ops = Absent
        /\ d.host = "bad" => d.id = NoId /\ d.recs = <<>>
        /\ \A i \in 1..Len(d.recs) : d.recs[i].expr = "bad" =>
               d.id = NoId /\ d.recs[i].id = NoId}

NextReplace ==
    /\ last.op = "init"
    /\ \E datas \in SeqsUpTo(ReplaceInputs, MaxLen),
          failAt \in 0..MaxLen + 1 :
           Replace(datas, failAt)

SpecReplace == InitCommitted /\ [][NextReplace]_vars

\* SpecCreate: one create on a committed store, with every payload of the
\* bounds that gives the store new rule entries: each combination of host,
\* direction, and expression and operations of each rule entry.
CheckInputs == {d \in RuleData : d.id = NoId}

CreateInputs ==
    {d \in [id : {NoId, MaxRouteId}, host : {Absent, "ok", "bad"},
            outbound : {Absent, "yes", "no"}, key : BOOLEAN,
            recs : SeqsUpTo(CheckInputs, MaxLen)] :
        ~d.key => d.recs = <<>>}

NextCreate ==
    /\ last.op = "init"
    /\ \E data \in CreateInputs, fail \in BOOLEAN : Create(data, fail)

SpecCreate == InitCommitted /\ [][NextCreate]_vars

(* ============================== properties ============================== *)
WriteOps == {"create", "update", "delete", "replace"}

\* C1: an update of an existing route that fails validation with
\* InvalidRouteConfiguration leaves the persisted route and its rule entries
\* as they were, right after the failed update and after a get_all that
\* follows it.
C1_FailedUpdateLeavesStoreIntact ==
    [][/\ (last'.op = "update" /\ last'.n # last.n
              /\ IsInvalidRouteConfiguration(last'.res)) => db' = db
       /\ (/\ last.op = "update"
           /\ IsInvalidRouteConfiguration(last.res)
           /\ last.rid \in DOMAIN db.routes
           /\ last'.op = "get_all" /\ last'.n # last.n)
              => /\ last.rid \in DOMAIN db'.routes
                 /\ db'.routes[last.rid] = db.routes[last.rid]]_vars

\* some route of the list fails check_route
AnyInvalid(datas) ==
    \E i \in 1..Len(datas) : check_route(NewRoute(datas[i])) # "ok"

\* C2: when a route of the list given to replace fails validation, replace
\* raises, and no route is deleted, inserted or staged, wherever the invalid
\* route stands in the list.
C2_ReplaceValidationAtomic ==
    [][(last'.op = "replace" /\ last'.n # last.n /\ AnyInvalid(last'.datas))
          => /\ last'.res # "ok"
             /\ db' = db
             /\ sess' = sess
             /\ last'.calls = <<>>]_vars

\* an invalid route that is not the first of the list was rejected while the
\* store holds routes
C2_Witness ==
    /\ last.op = "replace"
    /\ Len(last.datas) = 2
    /\ check_route(NewRoute(last.datas[1])) = "ok"
    /\ check_route(NewRoute(last.datas[2])) # "ok"
    /\ last.res = "Invalid host pattern"
    /\ DOMAIN db.routes # {}

\* the routes of the store are the routes constructed from the payloads
ExactlyNewRoutes(s, datas) ==
    /\ Cardinality(DOMAIN s.routes) = Len(datas)
    /\ \A i \in 1..Len(datas) :
           \E r \in DOMAIN s.routes :
               /\ datas[i].id # NoId => r = datas[i].id
               /\ s.routes[r].host = datas[i].host
               /\ Len(s.routes[r].rules) = Len(datas[i].recs)
               /\ \A k \in 1..Len(datas[i].recs) :
                      /\ s.routes[r].rules[k].expr
                             = NewEntry(datas[i].recs[k]).expr
                      /\ datas[i].recs[k].id # NoId =>
                             s.routes[r].rules[k].id = datas[i].recs[k].id

\* C3: replace swaps the route set in one step: when it succeeds the session
\* sees exactly the new routes, and when the delete or an insert of the
\* nested transaction fails it sees exactly the routes it saw before.
C3_ReplaceSwapAtomic ==
    [][(last'.op = "replace" /\ last'.n # last.n)
          => IF last'.res = "ok"
             THEN ExactlyNewRoutes(sess', last'.datas)
             ELSE sess' = sess]_vars

\* the insert of the second route failed inside the nested transaction, the
\* session seeing routes
C3_Witness ==
    /\ last.op = "replace"
    /\ last.res = "StorageError"
    /\ Len(last.datas) = 2
    /\ "add_all!" \in Range(last.calls)
    /\ DOMAIN sess.routes # {}

\* C4: when replace returns, the swap is committed: the persisted routes are
\* the new routes.
C4_ReplaceIsCommitted ==
    (last.op = "replace" /\ last.res = "ok") => db.routes = sess.routes

\* C5: a write whose commit fails rolls the session back before the error
\* propagates, and leaves nothing staged.
C5_CommitFailureRollsBack ==
    (last.op \in WriteOps /\ "commit!" \in Range(last.calls))
        => /\ last.calls[Len(last.calls)] = "rollback"
           /\ sess = db

\* the last operation was an update of a route the session found
Updated == last.op = "update" /\ last.found

\* the rule entries of the route the last update returned
After == db.routes[last.out].rules

\* C6: an update whose payload has no 'rule_entries_list' leaves the rule
\* entries of the route as they were (same entries, ids, fields and order)
\* and hands none to session.delete.
C6_KeylessUpdateKeepsRules ==
    (Updated /\ ~last.data.key)
        => /\ last.deleted = {}
           /\ "delete" \notin Range(last.calls)
           /\ last.res = "ok" => /\ After = last.prior
                                 /\ sess.routes[last.out].rules = last.prior
           /\ last.res \notin {"ok", "StorageError"} =>
                  \E r \in DOMAIN sess.routes :
                      /\ r \in {last.rid, last.data.id}
                      /\ sess.routes[r].rules = last.prior

\* a route with two rule entries was updated without the key
C6_Witness ==
    /\ Updated /\ ~last.data.key /\ last.res = "ok"
    /\ last.data.host = "ok"
    /\ Len(last.prior) = 2

\* C7: a successful update whose payload has an empty 'rule_entries_list'
\* leaves the route with no rule entry, every prior entry being deleted from
\* the store.
C7_EmptyListRemovesAll ==
    (Updated /\ last.data.key /\ last.data.recs = <<>> /\ last.res = "ok")
        => /\ After = <<>>
           /\ sess.routes[last.out].rules = <<>>
           /\ Ids(last.prior) \cap EntryIdsOf(db) = {}
           /\ last.deleted = Ids(last.prior)

C7_Witness ==
    /\ Updated /\ last.data.key /\ last.data.recs = <<>> /\ last.res = "ok"
    /\ Len(last.prior) = 2

\* the prior entry of the route with this id
PriorEntry(id) ==
    last.prior[CHOOSE k \in 1..Len(last.prior) : last.prior[k].id = id]

\* the record names an entry the route had
Named(rec) == rec.id # NoId /\ rec.id \in Ids(last.prior)

\* the prior entries are deleted exactly when the target list lacks their id
DeletesUnmatched ==
    /\ last.deleted = Ids(last.prior) \ Ids(After)
    /\ last.deleted \cap EntryIdsOf(db) = {}
    /\ \A id \in Ids(last.prior) \ last.deleted :
           \E k \in 1..Len(After) : After[k].id = id

\* C8 as stated: every record that names an entry of the route leaves that
\* entry with its id and with every field the record supplies, and the prior
\* entries are deleted exactly when the target list lacks their id.
C8_MatchedRecordsAdopted ==
    (Updated /\ last.data.key /\ last.res = "ok")
        => /\ \A i \in 1..Len(last.data.recs) :
                  LET rec == last.data.recs[i]
                  IN Named(rec) =>
                         \E k \in 1..Len(After) :
                             /\ After[k].id = rec.id
                             /\ rec.expr # Absent => After[k].expr = rec.expr
                             /\ rec.ops # Absent => After[k].ops = rec.ops
           /\ DeletesUnmatched

\* the value a merged entry has in a field: that of the last record naming
\* `id` which supplies the field, and the prior value when none does
MergedValue(id, field) ==
    LET recs == last.data.recs
        S == {i \in 1..Len(recs) : recs[i].id = id /\ recs[i][field] # Absent}
    IN IF S = {} THEN PriorEntry(id)[field]
       ELSE recs[CHOOSE i \in S : \A j \in S : j <= i][field]

\* C8, amended: a record that names an entry of the route is merged into
\* that entry, which keeps its id, keeps the fields no record supplies and,
\* in a field several records naming it supply, has the value of the last of
\* them; the prior entries are deleted exactly when the target list lacks
\* their id.
C8_MatchedRecordsMerged ==
    (Updated /\ last.data.key /\ last.res = "ok")
        => /\ \A i \in 1..Len(last.data.recs) :
                  LET rec == last.data.recs[i]
                  IN Named(rec) =>
                         \E k \in 1..Len(After) :
                             /\ After[k].id = rec.id
                             /\ After[k].expr = MergedValue(rec.id, "expr")
                             /\ After[k].ops = MergedValue(rec.id, "ops")
           /\ DeletesUnmatched

\* of two entries, one was merged with a record that supplies its operations
\* only, the other was deleted
C8_Witness ==
    /\ Updated /\ last.data.key /\ last.res = "ok"
    /\ Len(last.prior) = 2
    /\ Len(last.data.recs) = 1
    /\ last.data.recs[1].id = last.prior[2].id
    /\ last.data.recs[1].ops = "ok"
    /\ last.prior[2].expr = "ok"
    /\ last.deleted = {last.prior[1].id}

\* the payload with the ids that match no entry of the route taken out
WithoutUnmatchedIds(current, data) ==
    [data EXCEPT !.recs =
        [i \in 1..Len(data.recs) |->
            IF data.recs[i].id \in Ids(current) THEN data.recs[i]
            ELSE [data.recs[i] EXCEPT !.id = NoId]]]

Unmatched == {i \in 1..Len(last.data.recs) : ~Named(last.data.recs[i])}

FirstMentions ==
    {i \in 1..Len(last.data.recs) :
        Named(last.data.recs[i]) =>
            \A j \in 1..i - 1 : last.data.recs[j].id # last.data.recs[i].id}

C11_RouteIdStable ==
    [][(/\ last'.op = "update" /\ last'.n # last.n
        /\ last'.found /\ last'.res = "ok")
          => /\ last'.rid \in DOMAIN sess'.routes
             /\ last'.rid \in DOMAIN db'.routes
             /\ DOMAIN db'.routes \subseteq DOMAIN sess.routes]_vars

\* the last operation was an update that found no route and so created one
Upserted == last.op = "update" /\ ~last.found /\ "add" \in Range(last.calls)

\* C12: an update of an id that has no route, with a payload that passes
\* validation, creates a route: unless the store fails, get of that id then
\* finds a route with that id, built from the payload, whatever 'id' the
\* payload carries, and every other route is as it was.
C12_UpsertCreatesUnderGivenId ==
    [][(/\ last'.op = "update" /\ last'.n # last.n
        /\ ~sess.conflict
        /\ last'.rid \notin DOMAIN sess.routes
        /\ check_route(NewRoute([last'.data EXCEPT !.id = last'.rid])) = "ok")
          => /\ last'.res \in {"ok", "StorageError"}
             /\ last'.res = "ok" =>
                    /\ last'.out = last'.rid
                    /\ DOMAIN sess'.routes = DOMAIN sess.routes \cup {last'.rid}
                    /\ sess' = db'
                    /\ db'.routes[last'.rid].id = last'.rid
                    /\ db'.routes[last'.rid].host = last'.data.host
                    /\ Len(db'.routes[last'.rid].rules)
                           = Len(last'.data.recs)
                    /\ \A r \in DOMAIN sess.routes :
                           /\ db'.routes[r] = Committed(sess).routes[r]
                           /\ sess = db => db'.routes[r] = db.routes[r]]_vars

\* an update created the route of its id from a payload that names the id of
\* a route the store holds, which is left as it was
C12_Witness ==
    /\ Upserted /\ last.res = "ok"
    /\ last.data.id \notin {NoId, last.rid}
    /\ last.data.id \in DOMAIN db.routes
    /\ last.rid \in DOMAIN db.routes
    /\ db.routes[last.rid].id = last.rid
    /\ db.routes[last.data.id].rules # <<>>

\* C13: in a session that can query, delete of an id that has no route
\* raises EntityNotFound and changes nothing, in the store or in the session;
\* delete of an id that has a route removes, when it succeeds, that route and
\* every rule entry of it, and no other route.
C13_DeleteExactlyOne ==
    [][(last'.op = "delete" /\ last'.n # last.n /\ ~sess.conflict)
          => IF last'.rid \notin DOMAIN sess.routes
             THEN /\ last'.res = "EntityNotFound"
                  /\ db' = db
                  /\ sess' = sess
             ELSE /\ last'.res \in {"ok", "StorageError"}
                  /\ last'.res = "ok" =>
                         /\ DOMAIN db'.routes
                                = DOMAIN sess.routes \ {last'.rid}
                         /\ sess' = db'
                         /\ Ids(sess.routes[last'.rid].rules)
                                \cap EntryIdsOf(db') = {}
                         /\ \A r \in DOMAIN db'.routes :
                                /\ db'.routes[r] = Committed(sess).routes[r]
                                /\ sess = db =>
                                       db'.routes[r] = db.routes[r]]_vars

\* a route with a rule entry was deleted from a committed store, and another
\* route with a rule entry is left
C13_Witness ==
    /\ last.op = "delete" /\ last.res = "ok"
    /\ last.prior # <<>>
    /\ last.rid \notin DOMAIN db.routes
    /\ \E r \in DOMAIN db.routes : db.routes[r].rules # <<>>

\* the payload describes an outbound route with an unparsable host pattern,
\* or a rule entry that check_filter rejects
RejectedPayload(data) ==
    \/ data.outbound = "yes" /\ data.host = "bad"
    \/ \E i \in 1..Len(data.recs) :
           check_filter(NewEntry(data.recs[i])) # "ok"

\* C14: a create whose payload describes an outbound route with an
\* unparsable host pattern, or a rule entry that check_filter rejects, raises
\* InvalidRouteConfiguration and writes nothing: the store and the session
\* are as they were.
C14_RejectedCreateWritesNothing ==
    [][(last'.op = "create" /\ last'.n # last.n
            /\ RejectedPayload(last'.data))
          => /\ IsInvalidRouteConfiguration(last'.res)
             /\ db' = db
             /\ sess' = sess
             /\ last'.calls = <<>>]_vars

\* the part of C14 that is about the writes: a create that validation
\* rejects, with whatever error, calls nothing of the session
C14_RejectedCreateCallsNothing ==
    [][(last'.op = "create" /\ last'.n # last.n
            /\ RejectedPayload(last'.data))
          => /\ last'.res # "ok"
             /\ db' = db
             /\ sess' = sess
             /\ last'.calls = <<>>]_vars

\* every rule entry of the store content has one owner: none is left without
\* a route, none stands in the collections of two routes or twice in one,
\* and each has an id
Owned(s) ==
    /\ s.orphans = {}
    /\ \A r \in DOMAIN s.routes :
           LET rules == s.routes[r].rules
           IN /\ NoId \notin Ids(rules)
              /\ \A i, j \in 1..Len(rules) :
                     rules[i].id = rules[j].id => i = j
              /\ \A q \in DOMAIN s.routes \ {r} :
                     Ids(rules) \cap Ids(s.routes[q].rules) = {}

\* the rule entry ids that the payloads of a replace name
NamedIn(datas) ==
    UNION {Ids(datas[i].recs) : i \in 1..Len(datas)} \ {NoId}

RulesPass(data) ==
    \A i \in 1..Len(data.recs) : check_filter(NewEntry(data.recs[i])) = "ok"

\* C16: check_route compiles the host pattern exactly when the route is
\* outbound, in the sense of get_all_by_type: a create of a route that is not
\* outbound raises nothing on account of its host, be it absent or
\* unparsable, and a create of an outbound route with an unparsable host is
\* rejected for it.
C16_HostCheckedIffOutbound ==
    last.op = "create"
        => /\ (~is_outbound(NewRoute(last.data)) /\ RulesPass(last.data))
                  => last.res \in {"ok", "StorageError"}
           /\ (is_outbound(NewRoute(last.data)) /\ last.data.host = "bad")
                  => last.res = "Invalid host pattern"

\* the place of a check in the order of the validation
Rank(c) == IF c[1] = "host" THEN 0
           ELSE IF c[1] = "expression" THEN 2 * c[2] - 1 ELSE 2 * c[2]

\* the check finds nothing wrong in the payload
Passes(data, c) ==
    IF c[1] = "host" THEN data.host = "ok"
    ELSE IF c[1] = "expression" THEN data.recs[c[2]].expr = "ok"
    ELSE data.recs[c[2]].ops = "ok"

\* the error that the failure of the check raises
Raises(c, res) ==
    IF c[1] = "host" THEN res \in {"Invalid host pattern", "TypeError"}
    ELSE IF c[1] = "expression" THEN res = "Invalid expression"
    ELSE res = "Invalid operations"

\* the checks on the rule entries that the payload calls for
RuleChecks(data) ==
    {<<"expression", i>> : i \in {k \in 1..Len(data.recs) :
                                     data.recs[k].expr # Absent}}
        \cup {<<"operations", i>> : i \in {k \in 1..Len(data.recs) :
                                              data.recs[k].ops # Absent}}

\* C17: the validation of a create is ordered and stops at the first
\* failure: the checks it makes are in the order host, then the rule entries
\* in the order of the collection, the expression of an entry before its
\* operations; every check before the last one passes; the error raised is
\* that of the last check made, which is the first that fails; and the checks
\* made on the rule entries are exactly those that stand before the failure.
C17_ValidationOrderedFailFast ==
    last.op = "create"
        => LET t == last.checks
               n == Len(t)
               failed == last.res \notin {"ok", "StorageError"}
           IN /\ \A i, j \in 1..n : i < j => Rank(t[i]) < Rank(t[j])
              /\ \A i \in 1..n - 1 : Passes(last.data, t[i])
              /\ failed => /\ n > 0
                           /\ ~Passes(last.data, t[n])
                           /\ Raises(t[n], last.res)
              /\ ~failed => \A i \in 1..n : Passes(last.data, t[i])
              /\ \A c \in RuleChecks(last.data) :
                     (c \in Range(t))
                         <=> (~failed \/ Rank(c) <= Rank(t[n]))

\* the expression and the operations of the second rule entry are both
\* malformed, after a host and a first rule entry that pass: the expression
\* of the second is the last check
C17_Witness ==
    /\ last.op = "create"
    /\ last.res = "Invalid expression"
    /\ Len(last.data.recs) = 2
    /\ last.data.recs[2].ops = "bad"
    /\ last.checks = <<<<"host", 0>>, <<"expression", 1>>,
                       <<"operations", 1>>, <<"expression", 2>>>>

Reads == {"get_all", "get_all_by_type", "get"}

\* C18: get_all, get_all_by_type and get leave the persisted state as it is,
\* whatever the session holds, changes staged by an earlier operation
\* included; and a get of an id that has no route returns None and raises
\* nothing.
C18_ReadsAreReadOnly ==
    [][(last'.op \in Reads /\ last'.n # last.n)
          => /\ db' = db
             /\ (last'.op = "get" /\ ~sess.conflict
                     /\ last'.rid \notin DOMAIN sess.routes)
                    => last'.res = "ok" /\ last'.out = NoId]_vars

\* the part of C18 that is about get: it changes neither the store nor the
\* session, and returns None for an id that has no route
C18_GetIsReadOnly ==
    [][(last'.op = "get" /\ last'.n # last.n)
          => /\ db' = db
             /\ sess' = sess
             /\ (~sess.conflict /\ last'.rid \notin DOMAIN sess.routes)
                    => last'.res = "ok" /\ last'.out = NoId]_vars

\* the sub-check of the payload that fails first, as the context of the
\* error names it, or "none"
FirstFailure(data) ==
    IF data.host # "ok" THEN "Invalid host pattern"
    ELSE LET bad == {i \in 1..Len(data.recs) :
                        "bad" \in {data.recs[i].expr, data.recs[i].ops}}
         IN IF bad = {} THEN "none"
            ELSE LET i == CHOOSE k \in bad : \A j \in bad : k <= j
                 IN IF data.recs[i].expr = "bad" THEN "Invalid expression"
                    ELSE "Invalid operations"

\* C19: a create that the validation rejects raises InvalidRouteConfiguration
\* and no other kind of error, with the context of the sub-check that
\* failed: 'Invalid host pattern', 'Invalid expression' or 'Invalid
\* operations'.
C19_ValidationRaisesInvalidRoute ==
    (last.op = "create" /\ last.res \notin {"ok", "StorageError"})
        => /\ IsInvalidRouteConfiguration(last.res)
           /\ last.res = FirstFailure(last.data)

\* the part of C19 that is about the rule entries and the unparsable host:
\* on a route that has a host_endpoint, every failure of the validation is an
\* InvalidRouteConfiguration with the context of the failed sub-check
C19_WithHostRaisesInvalidRoute ==
    (last.op = "create" /\ last.res \notin {"ok", "StorageError"}
         /\ last.data.host # Absent)
        => /\ IsInvalidRouteConfiguration(last.res)
           /\ last.res = FirstFailure(last.data)

====
